---- MODULE Spec2Model ----
(***************************************************************************)
(* Model of src/detect_outliers.py: the IQR outlier detector               *)
(* detectar_outliers(df, multiplier) called as a library function on a     *)
(* pandas DataFrame (Spec, SpecLarge), and the command line of the script, *)
(* which loads a CSV file, calls the detector and saves or prints the      *)
(* report (SpecCLI).                                                       *)
(*                                                                         *)
(* Numbers.  A float is either NaN (the empty tuple) or a finite value,    *)
(* written <<k>> for the real number k / Scale.  The data of the model are *)
(* multiples of 1/8, the quantile fraction is a multiple of 1/4 and the    *)
(* multipliers are multiples of 1/2, so every intermediate value of the    *)
(* detector is a multiple of 1/64 and the binary floating-point arithmetic *)
(* of the program is exact on it.  Values rounded to 2 decimals are        *)
(* integers counting hundredths.                                           *)
(***************************************************************************)
EXTENDS Integers, Sequences, FiniteSets, TLC

VARIABLES
    df,          \* the DataFrame handed to the detector
    multiplier,  \* the multiplier argument of the latest call
    result,      \* outcome of the latest call: [kind, records]
    log,         \* records emitted through the logging module, oldest first
    calls,       \* number of calls made so far
    pc,          \* position of the script: "lib" when the detector is used as a library
    source,      \* what the file at args.filepath holds
    args,        \* the parsed command line: [multiplier, output]
    out          \* what was written to files and to the console, oldest first

vars == <<df, multiplier, result, log, calls, pc, source, args, out>>

-----------------------------------------------------------------------------
(* Bounds of the model *)

MaxRows == 4
MaxCols == 2
MaxCalls == 2
\* rows of the large frame: one outlier among them is less than 0.005 percent
LargeRows == 20001
\* rows of the CSV files the script is run on
CsvRows == 2

-----------------------------------------------------------------------------
(* Floating-point values *)

Scale == 8 * 8

NaN == <<>>
F(k) == <<k>>
IsNaN(x) == x = NaN

FSub(a, b) == IF IsNaN(a) \/ IsNaN(b) THEN NaN ELSE F(a[1] - b[1])
FAdd(a, b) == IF IsNaN(a) \/ IsNaN(b) THEN NaN ELSE F(a[1] + b[1])
FMul(a, b) == IF IsNaN(a) \/ IsNaN(b) THEN NaN ELSE F((a[1] * b[1]) \div Scale)
\* every comparison with NaN is False
FLt(a, b) == ~IsNaN(a) /\ ~IsNaN(b) /\ a[1] < b[1]
FGt(a, b) == FLt(b, a)

\* num / den rounded to the nearest integer, ties to the even one (den > 0)
RoundHalfEven(num, den) ==
    LET q == num \div den
        r == num % den
    IN  IF 2 * r < den THEN q
        ELSE IF 2 * r > den THEN q + 1
        ELSE IF q % 2 = 0 THEN q ELSE q + 1

\* round(x, 2): NaN stays NaN, a finite float becomes <<h>>, h counting hundredths
Round2(x) == IF IsNaN(x) THEN NaN ELSE F(RoundHalfEven(x[1] * 100, Scale))

-----------------------------------------------------------------------------
(* The DataFrame *)

NumCols(d) == Len(d.columns)
\* len(df): the number of rows, missing values included
len(d) == Len(d.index)

\* df.select_dtypes(include='number').columns, in declaration order
RECURSIVE select_dtypes_from(_, _)
select_dtypes_from(d, j) ==
    IF j > NumCols(d) THEN <<>>
    ELSE IF d.dtypes[j] = "number"
         THEN <<j>> \o select_dtypes_from(d, j + 1)
         ELSE select_dtypes_from(d, j + 1)

select_dtypes(d) == select_dtypes_from(d, 1)

\* the non-missing values of a column (dropna)
dropna(col) == SelectSeq(col, LAMBDA x : ~IsNaN(x))

\* the ascending sort of xs, held as the number of elements <= v for each value v
sort_values(xs) ==
    [v \in {xs[i][1] : i \in 1..Len(xs)} |->
        Cardinality({i \in 1..Len(xs) : xs[i][1] <= v})]

\* the k-th element (from 0) of a sort held that way
SortedAt(sorted, k) ==
    CHOOSE v \in DOMAIN sorted :
        /\ k < sorted[v]
        /\ \A w \in DOMAIN sorted : w < v => sorted[w] <= k

\* variant: the order statistic below the position, without interpolation
quantile_lower(col, q4) ==
    LET xs == dropna(col)
        n == Len(xs)
        sorted == sort_values(xs)
        pos4 == q4 * (n - 1)
        lo == pos4 \div 4
    IN  IF n = 0 THEN NaN ELSE F(SortedAt(sorted, lo))

\* Series.quantile(q4 / 4): linear interpolation between the order statistics
\* of the non-missing values; NaN when there is none
quantile(col, q4) ==
    LET xs == dropna(col)
        n == Len(xs)
        sorted == sort_values(xs)
        pos4 == q4 * (n - 1)
        lo == pos4 \div 4
        fr == pos4 % 4
        hi == IF fr = 0 THEN lo ELSE lo + 1
        a == SortedAt(sorted, lo)
        b == SortedAt(sorted, hi)
    IN  IF n = 0 THEN NaN ELSE F(a + (fr * (b - a)) \div 4)

-----------------------------------------------------------------------------
(* detectar_outliers *)

\* variant: the spread added on the lower side
limite_inferior_plus(q1, q3, m) == FAdd(q1, FMul(m, FSub(q3, q1)))
limite_inferior(q1, q3, m) == FSub(q1, FMul(m, FSub(q3, q1)))
\* variant: the spread subtracted on the upper side as well
limite_superior_minus(q1, q3, m) == FSub(q3, FMul(m, FSub(q3, q1)))
limite_superior(q1, q3, m) == FAdd(q3, FMul(m, FSub(q3, q1)))

\* variant: the mask compares against the bounds rounded for display
is_outlier_rounded(v, lo, hi) ==
    /\ ~IsNaN(v)
    /\ \/ ~IsNaN(lo) /\ v[1] * 100 < Round2(lo)[1] * Scale
       \/ ~IsNaN(hi) /\ v[1] * 100 > Round2(hi)[1] * Scale

\* variant: a value equal to a bound is kept by the mask
is_outlier_inclusive(v, lo, hi) ==
    /\ ~IsNaN(v)
    /\ \/ ~IsNaN(lo) /\ v[1] <= lo[1]
       \/ ~IsNaN(hi) /\ v[1] >= hi[1]

\* the boolean mask (df[col] < limite_inferior) | (df[col] > limite_superior)
is_outlier(v, lo, hi) == FLt(v, lo) \/ FGt(v, hi)

\* variant: the kept rows listed from the last row to the first
outlier_rows_reversed(d, j, lo, hi) ==
    LET kept == SelectSeq([i \in 1..len(d) |-> i],
                          LAMBDA i : FLt(d.data[j][i], lo) \/ FGt(d.data[j][i], hi))
    IN  [k \in 1..Len(kept) |-> kept[Len(kept) + 1 - k]]

\* positions (from 1) of the rows the mask keeps, in the order of the frame
outlier_rows(d, j, lo, hi) ==
    SelectSeq([i \in 1..len(d) |-> i], LAMBDA i : is_outlier(d.data[j][i], lo, hi))

\* variant: the percentage cut to 2 decimals instead of rounded
perc_outliers_truncated(qtd, total) == (qtd * 10000) \div total

\* round((qtd / len(df)) * 100, 2), in hundredths; total > 0
perc_outliers(qtd, total) == RoundHalfEven(qtd * 10000, total)

\* variant: the guard off by one
has_outliers_gt1(qtd) == qtd > 1

\* if qtd_outliers > 0
has_outliers(qtd) == qtd > 0

\* variant: resultados.insert(0, rec)
append_front(res, rec) == <<rec>> \o res

\* resultados.append(rec)
append(res, rec) == Append(res, rec)

\* the dictionary built for column j, whose mask keeps the rows `rows`
column_record(d, j, lo, hi, rows) ==
    [Coluna |-> d.columns[j],
     Qtd |-> Len(rows),
     Perc |-> perc_outliers(Len(rows), len(d)),
     LimInf |-> Round2(lo),
     LimSup |-> Round2(hi),
     Indices |-> [k \in 1..Len(rows) |-> d.index[rows[k]]]]

\* the loop over the numeric columns `cols` still to do, `res` being resultados;
\* qtd / len(df) raises ZeroDivisionError on a frame without rows
RECURSIVE for_col(_, _, _, _)
for_col(d, m, cols, res) ==
    IF cols = <<>> THEN [kind |-> "report", records |-> res]
    ELSE LET j == Head(cols)
             q1 == quantile(d.data[j], 1)
             q3 == quantile(d.data[j], 3)
             lo == limite_inferior(q1, q3, m)
             hi == limite_superior(q1, q3, m)
             rows == outlier_rows(d, j, lo, hi)
         IN  IF has_outliers(Len(rows))
             THEN IF len(d) = 0
                  THEN [kind |-> "ZeroDivisionError", records |-> <<>>]
                  ELSE for_col(d, m, Tail(cols),
                               append(res, column_record(d, j, lo, hi, rows)))
             ELSE for_col(d, m, Tail(cols), res)

LogRecord(level, msg) == [level |-> level, msg |-> msg]

LogStart == LogRecord("INFO", "Iniciando deteccao de outliers")
LogNoNumeric == LogRecord("WARNING", "Nenhuma coluna numerica encontrada")
LogDone == LogRecord("INFO", "Deteccao de outliers concluida")

\* variant: a frame without numeric columns raises instead of returning
detectar_outliers_raising(d, m) ==
    LET cols == select_dtypes(d)
        r == for_col(d, m, cols, <<>>)
    IN  IF cols = <<>>
        THEN [df |-> d,
              ret |-> [kind |-> "ValueError", records |-> <<>>],
              log |-> <<LogStart, LogNoNumeric>>]
        ELSE [df |-> d,
              ret |-> r,
              log |-> IF r.kind = "report" THEN <<LogStart, LogDone>> ELSE <<LogStart>>]

\* variant: the rows with a missing numeric value are dropped from the frame
\* itself before the detection (dropna with inplace=True)
detectar_outliers_inplace(d, m) ==
    LET keep == SelectSeq([i \in 1..len(d) |-> i],
                          LAMBDA i : \A j \in 1..NumCols(d) :
                                        d.dtypes[j] = "number" => ~IsNaN(d.data[j][i]))
        d2 == [index |-> [k \in 1..Len(keep) |-> d.index[keep[k]]],
               columns |-> d.columns,
               dtypes |-> d.dtypes,
               data |-> [j \in 1..NumCols(d) |->
                           [k \in 1..Len(keep) |-> d.data[j][keep[k]]]]]
        cols == select_dtypes(d2)
        r == for_col(d2, m, cols, <<>>)
    IN  IF cols = <<>>
        THEN [df |-> d2, ret |-> [kind |-> "report", records |-> <<>>],
              log |-> <<LogStart, LogNoNumeric>>]
        ELSE [df |-> d2, ret |-> r,
              log |-> IF r.kind = "report" THEN <<LogStart, LogDone>> ELSE <<LogStart>>]

\* the call's effect: the frame afterwards, what is returned or raised, what is logged
detectar_outliers(d, m) ==
    LET cols == select_dtypes(d)
        r == for_col(d, m, cols, <<>>)
    IN  IF cols = <<>>
        THEN [df |-> d,
              ret |-> [kind |-> "report", records |-> <<>>],
              log |-> <<LogStart, LogNoNumeric>>]
        ELSE [df |-> d,
              ret |-> r,
              log |-> IF r.kind = "report" THEN <<LogStart, LogDone>> ELSE <<LogStart>>]

-----------------------------------------------------------------------------
(* Inputs *)

\* 0.125, 1.125 or missing
Cells == {NaN, F(8), F(72)}

\* -1.0, 0.0, 0.5, 1.5, 3.0 and NaN
Multipliers == {F(-64), F(0), F(32), F(96), F(192), NaN}

\* names by position: the declaration order is not the alphabetical one
ColumnNames == <<"y", "x", "z", "w">>

\* a column of strings, and a numeric column whose last row stands out
TextCol(n) == [dtype |-> "object", cells |-> [i \in 1..n |-> "s"]]
SpikeCol(n) == [dtype |-> "number", cells |-> [i \in 1..n |-> IF i = n THEN F(72) ELSE F(8)]]
AnyNumCols(n) == {[dtype |-> "number", cells |-> c] : c \in [1..n -> Cells]}

Frame(n, cs) ==
    [index |-> [i \in 1..n |-> i - 1],
     columns |-> [j \in 1..Len(cs) |-> ColumnNames[j]],
     dtypes |-> [j \in 1..Len(cs) |-> cs[j].dtype],
     data |-> [j \in 1..Len(cs) |-> cs[j].cells]]

\* frames of n rows and c columns: column p ranges over every numeric column,
\* the others are a text column or the spike column
Frames(n, c) ==
    IF c = 0 THEN {Frame(n, <<>>)}
    ELSE {Frame(n, [j \in 1..c |-> IF j = p THEN free ELSE others[j]]) :
            p \in 1..c,
            free \in AnyNumCols(n) \cup {TextCol(n)},
            others \in [1..c -> {TextCol(n), SpikeCol(n)}]}

\* a single numeric column of LargeRows rows whose last row stands out
LargeFrame == Frame(LargeRows, <<SpikeCol(LargeRows)>>)

Datasets == UNION {Frames(n, c) : n \in 0..MaxRows, c \in 0..MaxCols}

\* the column x = [1, 2, 3, 4, 5, 6, 7, 8, 9, 100]
ScenarioA ==
    [index |-> <<0, 1, 2, 3, 4, 5, 6, 7, 8, 9>>,
     columns |-> <<"x">>,
     dtypes |-> <<"number">>,
     data |-> <<[i \in 1..10 |-> IF i = 10 THEN F(100 * Scale) ELSE F(i * Scale)]>>]

NoCall == [kind |-> "none", records |-> <<>>]

-----------------------------------------------------------------------------
(* The caller: any number of calls on the same frame *)

\* no file, no command line
NoSource == [kind |-> "none"]
NoArgs == [multiplier |-> NaN, output |-> ""]

Init ==
    /\ df \in Datasets
    /\ multiplier = NaN
    /\ result = NoCall
    /\ log = <<>>
    /\ calls = 0
    /\ pc = "lib"
    /\ source = NoSource
    /\ args = NoArgs
    /\ out = <<>>

Call(m) ==
    /\ calls < MaxCalls
    /\ \E e \in {detectar_outliers(df, m)} :
           /\ df' = e.df
           /\ result' = e.ret
           /\ log' = log \o e.log
    /\ multiplier' = m
    /\ calls' = calls + 1
    /\ UNCHANGED <<pc, source, args, out>>

Next == \E m \in Multipliers : Call(m)

Spec == Init /\ [][Next]_vars

\* the same caller, the large frame among its frames
InitLarge ==
    /\ df \in Datasets \cup {LargeFrame}
    /\ multiplier = NaN
    /\ result = NoCall
    /\ log = <<>>
    /\ calls = 0
    /\ pc = "lib"
    /\ source = NoSource
    /\ args = NoArgs
    /\ out = <<>>

SpecLarge == InitLarge /\ [][Next]_vars

\* the same caller, the frame of scenario A among its frames
InitScenario ==
    /\ df \in Datasets \cup {ScenarioA}
    /\ multiplier = NaN
    /\ result = NoCall
    /\ log = <<>>
    /\ calls = 0
    /\ pc = "lib"
    /\ source = NoSource
    /\ args = NoArgs
    /\ out = <<>>

SpecScenario == InitScenario /\ [][Next]_vars

\* one-column frames of one more row: the shortest on which a column has
\* q1 = q3 and a value that differs from them
TallFrames == Frames(MaxRows + 1, 1)

\* the same caller, the tall frames among its frames
InitTall ==
    /\ df \in Datasets \cup TallFrames
    /\ multiplier = NaN
    /\ result = NoCall
    /\ log = <<>>
    /\ calls = 0
    /\ pc = "lib"
    /\ source = NoSource
    /\ args = NoArgs
    /\ out = <<>>

SpecTall == InitTall /\ [][Next]_vars

-----------------------------------------------------------------------------
(* The script: python detect_outliers.py filepath [--multiplier m]          *)
(* [--output path]                                                          *)

\* the value of df when the loader gave no DataFrame
None == [kind |-> "None"]

LogTrying == LogRecord("INFO", "Tentando carregar dados do arquivo")
LogLoaded == LogRecord("INFO", "Dados carregados com sucesso")
LogNotFound == LogRecord("ERROR", "Erro: Arquivo nao encontrado")
LogEmptyFile == LogRecord("ERROR", "Erro: O arquivo esta vazio")
LogUnexpected == LogRecord("ERROR", "Ocorreu um erro inesperado ao carregar o arquivo")
LogSaved == LogRecord("INFO", "Resultados salvos com sucesso")
LogSaveError == LogRecord("ERROR", "Erro ao salvar os resultados")
LogHeader == LogRecord("INFO", "--- RESULTADOS DA DETECCAO DE OUTLIERS ---")
LogFooter == LogRecord("INFO", "-----------------------------------------")
LogNoOutliers == LogRecord("INFO", "Nenhum outlier foi encontrado nas colunas numericas")
LogFinished == LogRecord("INFO", "Processo finalizado")

\* pd.read_csv: the DataFrame of a CSV file, or the exception raised on a file
\* that is absent, has no columns to parse, is not text in the given encoding,
\* or whose lines do not parse
read_csv(src) ==
    CASE src.kind = "csv" -> [raised |-> "", frame |-> src.frame]
      [] src.kind = "missing" -> [raised |-> "FileNotFoundError", frame |-> None]
      [] src.kind = "empty" -> [raised |-> "EmptyDataError", frame |-> None]
      [] src.kind = "undecodable" -> [raised |-> "UnicodeDecodeError", frame |-> None]
      [] src.kind = "malformed" -> [raised |-> "ParserError", frame |-> None]

\* variant: a failed load hands back a DataFrame without rows and columns
carregar_dados_empty_frame(src) ==
    LET r == read_csv(src)
    IN  CASE r.raised = "" -> [ret |-> r.frame, log |-> <<LogTrying, LogLoaded>>]
          [] r.raised = "FileNotFoundError" ->
                 [ret |-> Frame(0, <<>>), log |-> <<LogTrying, LogNotFound>>]
          [] r.raised = "EmptyDataError" ->
                 [ret |-> Frame(0, <<>>), log |-> <<LogTrying, LogEmptyFile>>]
          [] OTHER -> [ret |-> Frame(0, <<>>), log |-> <<LogTrying, LogUnexpected>>]

\* what the loader returns and logs
carregar_dados(src) ==
    LET r == read_csv(src)
    IN  CASE r.raised = "" -> [ret |-> r.frame, log |-> <<LogTrying, LogLoaded>>]
          [] r.raised = "FileNotFoundError" ->
                 [ret |-> None, log |-> <<LogTrying, LogNotFound>>]
          [] r.raised = "EmptyDataError" ->
                 [ret |-> None, log |-> <<LogTrying, LogEmptyFile>>]
          [] OTHER -> [ret |-> None, log |-> <<LogTrying, LogUnexpected>>]

\* the output paths of the model: not given, one that can be written, one
\* that cannot
Outputs == {"", "resultados.csv", "/proc/resultados.csv"}
Writable(path) == path = "resultados.csv"

\* what the writer writes and logs: to_csv raising is caught and logged
salvar_resultados(records, path) ==
    IF Writable(path)
    THEN [out |-> <<[kind |-> "file", path |-> path, records |-> records]>>,
          log |-> <<LogSaved>>]
    ELSE [out |-> <<>>, log |-> <<LogSaveError>>]

\* the frames a CSV file can hold: a header without rows gives text columns
CsvFrames ==
    {Frame(0, <<TextCol(0)>>)} \cup UNION {Frames(n, 1) : n \in 1..CsvRows}

Sources ==
    {[kind |-> k, frame |-> None] :
         k \in {"missing", "empty", "undecodable", "malformed"}}
    \cup {[kind |-> "csv", frame |-> f] : f \in CsvFrames}

InitCLI ==
    /\ df = None
    /\ multiplier = NaN
    /\ result = NoCall
    /\ log = <<>>
    /\ calls = 0
    /\ pc = "start"
    /\ source \in Sources
    /\ args \in [multiplier : Multipliers, output : Outputs]
    /\ out = <<>>

\* df = carregar_dados(args.filepath, ...)
Load ==
    /\ pc = "start"
    /\ \E e \in {carregar_dados(source)} :
           /\ df' = e.ret
           /\ log' = log \o e.log
    /\ pc' = "loaded"
    /\ UNCHANGED <<multiplier, result, calls, source, args, out>>

\* if df is not None: resultados_df = detectar_outliers(df, multiplier=args.multiplier)
Detect ==
    /\ pc = "loaded"
    /\ df # None
    /\ \E e \in {detectar_outliers(df, args.multiplier)} :
           /\ df' = e.df
           /\ result' = e.ret
           /\ log' = log \o e.log
           /\ pc' = IF e.ret.kind = "report" THEN "detected" ELSE "raised"
    /\ multiplier' = args.multiplier
    /\ calls' = calls + 1
    /\ UNCHANGED <<source, args, out>>

\* if not resultados_df.empty: if args.output: salvar_resultados(...)
Save ==
    /\ pc = "detected"
    /\ result.records # <<>>
    /\ args.output # ""
    /\ \E e \in {salvar_resultados(result.records, args.output)} :
           /\ out' = out \o e.out
           /\ log' = log \o e.log
    /\ pc' = "reported"
    /\ UNCHANGED <<df, multiplier, result, calls, source, args>>

\* else: print(resultados_df.to_string()) between two log lines
Show ==
    /\ pc = "detected"
    /\ result.records # <<>>
    /\ args.output = ""
    /\ out' = Append(out, [kind |-> "console", path |-> "", records |-> result.records])
    /\ log' = log \o <<LogHeader, LogFooter>>
    /\ pc' = "reported"
    /\ UNCHANGED <<df, multiplier, result, calls, source, args>>

\* else: logging.info("Nenhum outlier foi encontrado ...")
NoOutliers ==
    /\ pc = "detected"
    /\ result.records = <<>>
    /\ log' = Append(log, LogNoOutliers)
    /\ pc' = "reported"
    /\ UNCHANGED <<df, multiplier, result, calls, source, args, out>>

\* logging.info("Processo finalizado.")
Finish ==
    /\ \/ pc = "reported"
       \/ pc = "loaded" /\ df = None
    /\ log' = Append(log, LogFinished)
    /\ pc' = "done"
    /\ UNCHANGED <<df, multiplier, result, calls, source, args, out>>

NextCLI == Load \/ Detect \/ Save \/ Show \/ NoOutliers \/ Finish

\* the script runs its statements one after the other until the last one
SpecCLI == InitCLI /\ [][NextCLI]_vars /\ WF_vars(NextCLI)

-----------------------------------------------------------------------------
(* Vocabulary of the properties *)

Called == calls > 0
Returned == result.kind = "report"
EmptyReport == [kind |-> "report", records |-> <<>>]
Records == result.records
NRecords == Len(result.records)

NumericCols(d) == {j \in 1..NumCols(d) : d.dtypes[j] = "number"}
ColPos(d, name) == CHOOSE j \in 1..NumCols(d) : d.columns[j] = name
SeqRange(s) == {s[k] : k \in 1..Len(s)}

\* the row indices a report lists for the column called name
ReportedIndices(r, name) ==
    UNION {SeqRange(r.records[k].Indices) :
             k \in {k \in 1..Len(r.records) : r.records[k].Coluna = name}}

\* lower = q1 - m * iqr and upper = q3 + m * iqr of column j, unrounded
LowerBound(d, j, m) ==
    limite_inferior(quantile(d.data[j], 1), quantile(d.data[j], 3), m)
UpperBound(d, j, m) ==
    limite_superior(quantile(d.data[j], 1), quantile(d.data[j], 3), m)

\* the rows of column j strictly outside [lower, upper]
Flagged(d, j, m) ==
    LET lo == LowerBound(d, j, m)
        hi == UpperBound(d, j, m)
    IN  {i \in 1..len(d) : FLt(d.data[j][i], lo) \/ FGt(d.data[j][i], hi)}

ValidMultiplier(m) == ~IsNaN(m) /\ m[1] >= 0

-----------------------------------------------------------------------------
(* C1: on a frame with at least one row and a multiplier >= 0, row index i  *)
(* is listed for numeric column c exactly when the value of c at row i is   *)
(* strictly below the unrounded lower bound or strictly above the unrounded *)
(* upper bound; a value equal to a bound is not listed.                     *)
C1_StrictUnroundedBounds ==
    (Called /\ Returned /\ len(df) >= 1 /\ ValidMultiplier(multiplier)) =>
        \A j \in NumericCols(df) :
            LET lo == LowerBound(df, j, multiplier)
                hi == UpperBound(df, j, multiplier)
                listed == ReportedIndices(result, df.columns[j])
            IN  \A i \in 1..len(df) :
                    (df.index[i] \in listed)
                        <=> (FLt(df.data[j][i], lo) \/ FGt(df.data[j][i], hi))

\* a reported column holding a value equal to its upper bound, which the
\* 2-decimal rounding of that bound would put outside
C1_Witness ==
    /\ Called /\ Returned /\ ValidMultiplier(multiplier)
    /\ \E j \in NumericCols(df) :
        LET hi == UpperBound(df, j, multiplier)
            listed == ReportedIndices(result, df.columns[j])
        IN  /\ listed # {}
            /\ \E i \in 1..len(df) :
                /\ df.data[j][i] = hi
                /\ df.index[i] \notin listed
                /\ df.data[j][i][1] * 100 > Round2(hi)[1] * Scale

-----------------------------------------------------------------------------
(* C2: a call on a frame with zero rows signals EmptyDatasetError instead   *)
(* of returning a report, for every multiplier and every column set,        *)
(* numeric columns included.  Stated for the case the claim singles out, a  *)
(* frame with numeric columns, and a multiplier >= 0.                       *)
C2_EmptyDatasetRejected ==
    (Called /\ len(df) = 0 /\ NumericCols(df) # {} /\ ValidMultiplier(multiplier))
        => result.kind = "EmptyDatasetError"

\* what the code does on zero rows: the quantiles are NaN, the mask keeps no
\* row, and the empty report is returned without any error
ZeroRowsEmptyReport ==
    (Called /\ len(df) = 0) => result = EmptyReport

-----------------------------------------------------------------------------
(* C3: a call with a negative or non-finite multiplier signals              *)
(* InvalidMultiplierError and returns no report; in particular no record is *)
(* ever built from bounds computed with a negative multiplier.  Stated as   *)
(* that particular: whatever such a call signals, it yields no record.      *)
C3_InvalidMultiplierRejected ==
    (Called /\ ~ValidMultiplier(multiplier)) =>
        (result.kind # "report" \/ result.records = <<>>)

-----------------------------------------------------------------------------
(* C4: on a frame with at least one row and no numeric column the call      *)
(* returns the empty report and signals no error, for every multiplier.     *)
C4_NoNumericColumnsEmptyReport ==
    (Called /\ len(df) >= 1 /\ NumericCols(df) = {}) => result = EmptyReport

C4_Witness ==
    /\ Called /\ len(df) >= 1 /\ NumCols(df) >= 1 /\ NumericCols(df) = {}
    /\ result = EmptyReport

-----------------------------------------------------------------------------
(* C5: a report holds exactly one record for each numeric column with at    *)
(* least one outlier and none for any other column: every record counts at  *)
(* least one outlier, no column name appears twice, and a numeric column    *)
(* without outliers does not appear.                                        *)
C5_OneRecordPerOutlierColumn ==
    (Called /\ Returned) =>
        /\ \A k \in 1..NRecords : Records[k].Qtd >= 1
        /\ \A k1, k2 \in 1..NRecords :
                Records[k1].Coluna = Records[k2].Coluna => k1 = k2
        /\ {Records[k].Coluna : k \in 1..NRecords}
             = {df.columns[j] : j \in {j \in NumericCols(df) :
                                         Flagged(df, j, multiplier) # {}}}

\* a report that omits a numeric column without outliers and keeps another
C5_Witness ==
    /\ Called /\ Returned /\ NRecords >= 1
    /\ \E j \in NumericCols(df) :
        /\ Flagged(df, j, multiplier) = {}
        /\ \A k \in 1..NRecords : Records[k].Coluna # df.columns[j]
    /\ \E k \in 1..NRecords : Records[k].Qtd = 1

-----------------------------------------------------------------------------
(* C6: the records of a report are in the declaration order of their        *)
(* columns: of two records, the earlier one belongs to the column declared  *)
(* earlier.                                                                 *)
C6_DeclarationOrder ==
    (Called /\ Returned) =>
        \A k1, k2 \in 1..NRecords :
            k1 < k2 => ColPos(df, Records[k1].Coluna) < ColPos(df, Records[k2].Coluna)

\* two records whose declaration order is not the alphabetical order
C6_Witness ==
    /\ Called /\ Returned /\ NRecords >= 2
    /\ Records[1].Coluna = "y" /\ Records[2].Coluna = "x"

-----------------------------------------------------------------------------
(* C8: in every record the row indices are in ascending order of the frame  *)
(* with none repeated, each is an index of a row of the frame, and the      *)
(* outlier count is the length of the list.                                 *)
C8_IndicesAscending ==
    (Called /\ Returned) =>
        \A k \in 1..NRecords :
            LET ix == Records[k].Indices
            IN  /\ \A a, b \in 1..Len(ix) : a < b => ix[a] < ix[b]
                /\ \A a \in 1..Len(ix) : ix[a] \in SeqRange(df.index)
                /\ Records[k].Qtd = Len(ix)

\* a record listing at least two rows
C8_Witness ==
    Called /\ Returned /\ \E k \in 1..NRecords : Len(Records[k].Indices) >= 2

-----------------------------------------------------------------------------
(* C7 as claimed: in every record the percentage is                         *)
(* round(count / total_rows * 100, 2), total_rows counting every row of the *)
(* frame, so that 0 < percentage <= 100.                                    *)
C7_Original ==
    (Called /\ Returned) =>
        \A k \in 1..NRecords :
            /\ Records[k].Perc = RoundHalfEven(Records[k].Qtd * 10000, len(df))
            /\ 0 < Records[k].Perc
            /\ Records[k].Perc <= 10000

(* C7: in every record the percentage is round(count / total_rows * 100, 2),*)
(* total_rows counting every row of the frame, rows with a missing value in *)
(* the column included, so that 0 <= percentage <= 100; the percentage is   *)
(* 0.0 when count / total_rows * 100 rounds to it.                          *)
C7_PercentageOfTotalRows ==
    (Called /\ Returned) =>
        \A k \in 1..NRecords :
            /\ Records[k].Perc = RoundHalfEven(Records[k].Qtd * 10000, len(df))
            /\ 0 <= Records[k].Perc
            /\ Records[k].Perc <= 10000

\* 2 outliers in a column of 3 rows, one of them missing: 66.67
C7_Witness ==
    /\ Called /\ Returned /\ len(df) = 3
    /\ \E k \in 1..NRecords :
        /\ Records[k].Qtd = 2
        /\ Records[k].Perc = 6667
        /\ \E i \in 1..len(df) : IsNaN(df.data[ColPos(df, Records[k].Coluna)][i])

-----------------------------------------------------------------------------
(* C9: of two successive calls on the same frame with multipliers           *)
(* 0 <= m1 < m2, the rows listed for a numeric column under m2 are among    *)
(* the rows listed for it under m1.                                         *)
C9_MonotoneInMultiplier ==
    [][(/\ Called /\ calls' = calls + 1
        /\ Returned /\ result'.kind = "report"
        /\ ValidMultiplier(multiplier) /\ ValidMultiplier(multiplier'))
       => \A j \in NumericCols(df) :
            LET before == ReportedIndices(result, df.columns[j])
                after == ReportedIndices(result', df.columns[j])
            IN  /\ multiplier[1] < multiplier'[1] => after \subseteq before
                /\ multiplier'[1] < multiplier[1] => before \subseteq after]_vars

\* after a second call, with a multiplier > 0: one column is still reported and
\* another, which has outliers under multiplier 0, no longer is
C9_Witness ==
    /\ calls >= 2 /\ Returned /\ ValidMultiplier(multiplier) /\ multiplier[1] > 0
    /\ \E j \in NumericCols(df) : ReportedIndices(result, df.columns[j]) # {}
    /\ \E j \in NumericCols(df) :
        /\ ReportedIndices(result, df.columns[j]) = {}
        /\ Flagged(df, j, F(0)) # {}

-----------------------------------------------------------------------------
(* C10: a call leaves the frame as it was, and a call that repeats the      *)
(* multiplier of the call before it returns the same report.                *)
C10_RepeatableAndReadOnly ==
    [][calls' = calls + 1
       => /\ df' = df
          /\ (Called /\ multiplier' = multiplier) => result' = result]_vars

\* after a second call: a report with a record, on a frame with a missing value
C10_Witness ==
    /\ calls >= 2 /\ Returned /\ NRecords >= 1
    /\ \E j \in NumericCols(df) : \E i \in 1..len(df) : IsNaN(df.data[j][i])

-----------------------------------------------------------------------------
(* C11: in a run of the script the detector is invoked only after the       *)
(* loader returned the DataFrame of the file; when the load fails (file not *)
(* found, empty file, undecodable or unparsable file) the loader returns no *)
(* DataFrame, neither the detector nor the writer is invoked and nothing is *)
(* written, and the run still reaches its last step, which logs "Processo   *)
(* finalizado".                                                             *)

LoaderReturned == pc \in {"loaded", "detected", "raised", "reported", "done"}
LoaderFailed == LoaderReturned /\ source.kind # "csv"
WriterInvoked == \E k \in 1..Len(log) : log[k] \in {LogSaved, LogSaveError}
Finished == pc = "done" /\ log # <<>> /\ log[Len(log)] = LogFinished

C11_DetectorOnlyAfterLoad ==
    /\ [](Called => (LoaderReturned /\ source.kind = "csv" /\ df = source.frame))
    /\ [](LoaderFailed => (df = None /\ ~Called /\ ~WriterInvoked /\ out = <<>>))
    /\ (LoaderFailed ~> Finished)

C11_Witness ==
    /\ LoaderFailed
    /\ Finished
    /\ ~Called
    /\ log = <<LogTrying, LogNotFound, LogFinished>>

-----------------------------------------------------------------------------
(* C12: between the entry and the return of a call of the detector no log   *)
(* record is emitted and nothing is written to a file or to the console:    *)
(* a step that makes a call, on a frame with rows and a numeric column and  *)
(* with a multiplier >= 0, leaves log and out as they were.                 *)

C12_NoOutputInsideDetector ==
    [][(/\ calls' = calls + 1
        /\ len(df) > 0
        /\ NumericCols(df) # {}
        /\ ValidMultiplier(multiplier'))
       => (log' = log /\ out' = out)]_vars

\* what a call emits: a record at its start, then a warning when the frame has
\* no numeric column, or else a record at its end
DetectorLogs ==
    [][calls' = calls + 1 =>
           /\ out' = out
           /\ \/ log' = log \o <<LogStart, LogNoNumeric>>
              \/ log' = log \o <<LogStart, LogDone>>]_vars

-----------------------------------------------------------------------------
(* C13: for every numeric column with at least one non-missing value, the   *)
(* quartiles the detector uses are sorted[lo] + frac * (sorted[hi] -        *)
(* sorted[lo]) with pos = p * (n - 1), lo = floor(pos), hi = ceil(pos),     *)
(* frac = pos - lo over the ascending non-missing values: the report lists  *)
(* for the column exactly the rows strictly outside the bounds derived from *)
(* them and shows those bounds rounded.  For x = [1, ..., 9, 100] and       *)
(* multiplier 1.5 the report is the single record with bounds -3.5 and      *)
(* 14.5, indices [9], count 1 and percentage 10.0.                          *)

\* s with v inserted before its first element greater than v
RECURSIVE InsertSorted(_, _)
InsertSorted(s, v) ==
    IF s = <<>> THEN <<v>>
    ELSE IF v <= Head(s) THEN <<v>> \o s
    ELSE <<Head(s)>> \o InsertSorted(Tail(s), v)

\* the non-missing values of a column in ascending order, 0-based below
RECURSIVE AscendingFrom(_, _)
AscendingFrom(col, i) ==
    IF i > Len(col) THEN <<>>
    ELSE IF IsNaN(col[i]) THEN AscendingFrom(col, i + 1)
    ELSE InsertSorted(AscendingFrom(col, i + 1), col[i][1])

\* the quantile p = p4 / 4 by the formula, positions counted in quarters
InterpolatedQuantile(col, p4) ==
    LET sorted == AscendingFrom(col, 1)
        n == Len(sorted)
        pos4 == p4 * (n - 1)
        lo == pos4 \div 4
        hi == (pos4 + 3) \div 4
        frac4 == pos4 - 4 * lo
    IN  F(sorted[lo + 1] + (frac4 * (sorted[hi + 1] - sorted[lo + 1])) \div 4)

ScenarioARecord ==
    [Coluna |-> "x", Qtd |-> 1, Perc |-> 1000,
     LimInf |-> F(-350), LimSup |-> F(1450), Indices |-> <<9>>]

C13_InterpolatedQuantile ==
    Called =>
        /\ \A j \in NumericCols(df) :
               dropna(df.data[j]) # <<>> =>
                   LET q1 == InterpolatedQuantile(df.data[j], 1)
                       q3 == InterpolatedQuantile(df.data[j], 3)
                       lo == FSub(q1, FMul(multiplier, FSub(q3, q1)))
                       hi == FAdd(q3, FMul(multiplier, FSub(q3, q1)))
                   IN  /\ quantile(df.data[j], 1) = q1
                       /\ quantile(df.data[j], 3) = q3
                       /\ ReportedIndices(result, df.columns[j]) =
                              {df.index[i] : i \in {i \in 1..len(df) :
                                   FLt(df.data[j][i], lo) \/ FGt(df.data[j][i], hi)}}
                       /\ \A k \in 1..NRecords :
                              Records[k].Coluna = df.columns[j] =>
                                  /\ Records[k].LimInf = Round2(lo)
                                  /\ Records[k].LimSup = Round2(hi)
        /\ (df = ScenarioA /\ multiplier = F(96)) =>
               /\ quantile(df.data[1], 1) = F(208)
               /\ quantile(df.data[1], 3) = F(496)
               /\ LowerBound(df, 1, multiplier) = F(-224)
               /\ UpperBound(df, 1, multiplier) = F(928)
               /\ Records = <<ScenarioARecord>>

C13_Witness ==
    /\ Called
    /\ df = ScenarioA
    /\ multiplier = F(96)
    /\ NRecords = 1
    /\ Records[1].Indices = <<9>>

-----------------------------------------------------------------------------
(* C14: after a call with a multiplier >= 0, for every numeric column with  *)
(* at least one non-missing value, lower <= q1 <= q3 <= upper, and no row   *)
(* whose value lies in [q1, q3] is listed for the column.                   *)

HasValues(d, j) == dropna(d.data[j]) # <<>>
Q1(d, j) == quantile(d.data[j], 1)
Q3(d, j) == quantile(d.data[j], 3)

C14_BoundsEncloseQuartiles ==
    (Called /\ ValidMultiplier(multiplier)) =>
        \A j \in NumericCols(df) :
            HasValues(df, j) =>
                /\ LowerBound(df, j, multiplier)[1] <= Q1(df, j)[1]
                /\ Q1(df, j)[1] <= Q3(df, j)[1]
                /\ Q3(df, j)[1] <= UpperBound(df, j, multiplier)[1]
                /\ \A i \in 1..len(df) :
                       (/\ ~IsNaN(df.data[j][i])
                        /\ Q1(df, j)[1] <= df.data[j][i][1]
                        /\ df.data[j][i][1] <= Q3(df, j)[1])
                       => df.index[i] \notin ReportedIndices(result, df.columns[j])

\* a column with a spread, bounds strictly outside the quartiles, and a row
\* beyond them
C14_Witness ==
    /\ Called
    /\ ValidMultiplier(multiplier)
    /\ \E j \in NumericCols(df) :
           /\ HasValues(df, j)
           /\ LowerBound(df, j, multiplier)[1] < Q1(df, j)[1]
           /\ Q1(df, j)[1] < Q3(df, j)[1]
           /\ Q3(df, j)[1] < UpperBound(df, j, multiplier)[1]
           /\ ReportedIndices(result, df.columns[j]) # {}

-----------------------------------------------------------------------------
(* C15: after a call with a multiplier > 0, for every numeric column whose  *)
(* iqr is 0, lower = upper = q1 and the rows listed for the column are      *)
(* exactly the rows whose non-missing value differs from q1; a column whose *)
(* non-missing values are all the same has no record in the report.         *)

ZeroSpread(d, j) == HasValues(d, j) /\ FSub(Q3(d, j), Q1(d, j)) = F(0)
AllIdentical(d, j) ==
    \A i, k \in 1..len(d) :
        (~IsNaN(d.data[j][i]) /\ ~IsNaN(d.data[j][k])) => d.data[j][i] = d.data[j][k]

C15_DegenerateSpread ==
    (Called /\ ~IsNaN(multiplier) /\ multiplier[1] > 0) =>
        \A j \in NumericCols(df) :
            /\ ZeroSpread(df, j) =>
                   /\ LowerBound(df, j, multiplier) = Q1(df, j)
                   /\ UpperBound(df, j, multiplier) = Q1(df, j)
                   /\ ReportedIndices(result, df.columns[j]) =
                          {df.index[i] : i \in {i \in 1..len(df) :
                               ~IsNaN(df.data[j][i]) /\ df.data[j][i] # Q1(df, j)}}
                   /\ \A k \in 1..NRecords :
                          Records[k].Coluna = df.columns[j] =>
                              /\ Records[k].LimInf = Round2(Q1(df, j))
                              /\ Records[k].LimSup = Round2(Q1(df, j))
            /\ (HasValues(df, j) /\ AllIdentical(df, j)) =>
                   /\ ZeroSpread(df, j)
                   /\ \A k \in 1..NRecords : Records[k].Coluna # df.columns[j]

\* a column with q1 = q3 and a row that differs from them, which is listed
C15_Witness ==
    /\ Called
    /\ ~IsNaN(multiplier)
    /\ multiplier[1] > 0
    /\ \E j \in NumericCols(df) :
           /\ ZeroSpread(df, j)
           /\ ~AllIdentical(df, j)
           /\ ReportedIndices(result, df.columns[j]) # {}

====
